---- MODULE Spec2Model ----
(***************************************************************************)
(* The subscription service: the HTTP handlers (package handlers) and the  *)
(* PostgreSQL repository (package repository) over the one table of        *)
(* migrations/001_create_subscriptions_table.sql.                          *)
(*                                                                         *)
(* Strings are sequences of byte codes ("01-2023" is                       *)
(* <<48,49,45,50,48,50,51>>), so that time.Parse, the VARCHAR comparisons  *)
(* of the SQL and ILIKE are computed on characters as the code and the     *)
(* database compute them.  A Go pointer (to a string or an int) or nullable *)
(* column is Nil (<<>>) or a one-element sequence <<v>>.                   *)
(*                                                                         *)
(* gin serves every request on its own goroutine.  Create and Update read  *)
(* the clock (time.Now) in the application before they send their single   *)
(* statement, so each is two steps: ...Begin reads the clock, ...Exec      *)
(* sends the statement; pend holds the handlers between the two.  Nothing  *)
(* but the handler itself reads its request between the two steps, so the  *)
(* request (and the uuid of Create) is drawn where the statement uses it.  *)
(* The other handlers send one statement and read nothing before it: one   *)
(* step each.                                                              *)
(*                                                                         *)
(* Four specifications share the actions: Spec (Create, Update and Delete  *)
(* from an empty table), SpecRequest (every handler that validates, with   *)
(* malformed requests), SpecList and SpecCost (the two queries on the      *)
(* tables the service can hold).                                           *)
(***************************************************************************)
EXTENDS Integers, Sequences, FiniteSets, Bags, TLC

VARIABLES
    table,      \* the rows of subscriptions: a set of records
    now,        \* the last reading of the server's clock
    issued,     \* the uuids uuid.New has returned
    deleted,    \* history: the ids a Delete has removed
    pend,       \* bag of handlers between their clock reading and their statement
    resp        \* the last response sent (and what the handler did for it)

vars == <<table, now, issued, deleted, pend, resp>>

----------------------------------------------------------------------------
(* Bounds *)

MaxId == 2          \* uuid.New draws from 1..MaxId
MaxTime == 1        \* clock readings are 0..MaxTime
MaxInFlight == 2    \* handlers between Begin and Exec at one time
MaxPrice == 2       \* request prices are -1..MaxPrice
MaxRows == 2        \* rows of a table the query specifications start from

----------------------------------------------------------------------------
(* Values *)

Nil == <<>>
Some(v) == <<v>>

Ids == 1..MaxId
Times == 0..MaxTime

\* The text of uuid n: one character stands for the 36 of a uuid.
UuidText(n) == <<48 + n>>
BadUuidText == <<120>>                         \* "x"
Empty == <<>>                                  \* ""

\* uuid.Nil, which uuid.Parse returns with its error.
NoId == 0

\* uuid.Parse: Some(uuid), or Nil for an error.
ParseUUID(s) ==
    IF Len(s) = 1 /\ s[1] >= 49 /\ s[1] <= 57 THEN Some(s[1] - 48) ELSE Nil

\* "MM-YYYY" of month m and year y, as bytes.
MonthYear(m, y) ==
    << 48 + (m \div 10), 48 + (m % 10), 45,
       48 + ((y \div 1000) % 10), 48 + ((y \div 100) % 10),
       48 + ((y \div 10) % 10), 48 + (y % 10) >>

IsDigit(c) == c >= 48 /\ c <= 57

\* time.Parse("01-2006", s) returns no error: two digits of a month 1..12,
\* "-", four digits of a year, and no text after them.
ParseMonthYear(s) ==
    /\ Len(s) = 7
    /\ IsDigit(s[1]) /\ IsDigit(s[2])
    /\ LET month == (s[1] - 48) * 10 + (s[2] - 48) IN month >= 1 /\ month <= 12
    /\ s[3] = 45
    /\ \A i \in 4..7 : IsDigit(s[i])

\* What the requests of the write specification carry.
NameA == <<97>>                                \* "a"
NameB == <<98>>                                \* "b"
Jan2023 == MonthYear(1, 2023)                  \* "01-2023"
Dec2023 == MonthYear(12, 2023)                 \* "12-2023"
WrongOrder == <<50, 48, 50, 51, 45, 48, 55>>   \* "2023-07"
Month13 == MonthYear(13, 2023)                 \* "13-2023"

Prices == (-1)..MaxPrice
PathTexts == {UuidText(n) : n \in Ids} \cup {BadUuidText}

\* models.CreateSubscriptionRequest as ShouldBindJSON fills it: the bodies
\* whose fields are all well formed, with every price, and bodies with a
\* malformed start_date, end_date or user_id.
WellFormedCreates ==
    [service_name : {NameA}, price : Prices, user_id : {UuidText(1)},
     start_date : {Jan2023}, end_date : {Nil, Some(Dec2023)}]

MalformedCreates ==
    LET ok == [service_name |-> NameA, price |-> 1, user_id |-> UuidText(1),
               start_date |-> Jan2023, end_date |-> Nil]
    IN  { [ok EXCEPT !.start_date = WrongOrder],
          [ok EXCEPT !.start_date = Month13, !.price = 0],
          [ok EXCEPT !.start_date = Empty],
          [ok EXCEPT !.end_date = Some(WrongOrder)],
          [ok EXCEPT !.end_date = Some(Empty), !.price = -1],
          [ok EXCEPT !.user_id = BadUuidText],
          [ok EXCEPT !.user_id = Empty, !.end_date = Some(Dec2023)] }

\* The path id and models.UpdateSubscriptionRequest as ShouldBindJSON fills
\* it: every subset of the three fields on every path id that parses, with a
\* price above and prices not above 0, and requests with a malformed path id
\* or end_date.
WellFormedUpdates ==
    { in \in [id : {UuidText(n) : n \in Ids},
              service_name : {Nil, Some(NameB)},
              price : {Nil} \cup {Some(p) : p \in Prices},
              end_date : {Nil, Some(Dec2023)}] :
        \/ in.price \in {Nil, Some(MaxPrice)}
        \/ in.price[1] <= 0 /\ in.service_name = Nil /\ in.end_date = Nil }

MalformedUpdates ==
    LET ok == [id |-> UuidText(1), service_name |-> Nil, price |-> Nil,
               end_date |-> Nil]
    IN  { [ok EXCEPT !.id = BadUuidText],
          [ok EXCEPT !.id = BadUuidText, !.price = Some(1)],
          [ok EXCEPT !.end_date = Some(WrongOrder)],
          [ok EXCEPT !.end_date = Some(Month13), !.service_name = Some(NameB)],
          [ok EXCEPT !.end_date = Some(Empty), !.price = Some(0)] }

----------------------------------------------------------------------------
(* The table and its statements *)

IdsOf(t) == {r.id : r \in t}

\* InsertFails without the CHECK (price > 0) of the column.
InsertFailsKeyOnly(t, row) ==
    row.id \in IdsOf(t)

\* INSERT INTO subscriptions: the PRIMARY KEY and CHECK (price > 0) decide
\* whether the row goes in.
InsertFails(t, row) ==
    \/ row.id \in IdsOf(t)
    \/ ~(row.price > 0)

\* The fields an update request supplies.
Supplied(req) ==
    {f \in {"service_name", "price", "end_date"} : req[f] # Nil}

\* SetRow writing every column of the request, the absent ones as NULL.
SetRowWritesAbsent(r, req, ts) ==
    [r EXCEPT !.updated_at = ts,
              !.service_name = IF req.service_name # Nil THEN req.service_name[1] ELSE @,
              !.price = IF req.price # Nil THEN req.price[1] ELSE @,
              !.end_date = req.end_date]

\* SetRow without "updated_at = $1".
SetRowKeepsStamp(r, req, ts) ==
    [r EXCEPT !.service_name = IF req.service_name # Nil THEN req.service_name[1] ELSE @,
              !.price = IF req.price # Nil THEN req.price[1] ELSE @,
              !.end_date = IF req.end_date # Nil THEN req.end_date ELSE @]

\* UPDATE subscriptions SET updated_at = $1 [, field = $n]... on one row.
SetRow(r, req, ts) ==
    [r EXCEPT !.updated_at = ts,
              !.service_name = IF req.service_name # Nil THEN req.service_name[1] ELSE @,
              !.price = IF req.price # Nil THEN req.price[1] ELSE @,
              !.end_date = IF req.end_date # Nil THEN req.end_date ELSE @]

\* The errors a repository method returns.
ErrNil == "nil"
ErrNoRows == "sql: no rows in result set"
ErrPq == "pq: error"

\* uuid.New: a uuid it has not returned before.
NewUUID(used) == Ids \ used

\* PostgresRepository.Create with the id and the two clock readings it took.
RepoCreate(t, sub, id, at) ==
    LET row == [id |-> id, service_name |-> sub.service_name, price |-> sub.price,
                user_id |-> sub.user_id, start_date |-> sub.start_date,
                end_date |-> sub.end_date,
                created_at |-> at[1], updated_at |-> at[2]]
    IN  IF InsertFails(t, row)
        THEN [err |-> ErrPq, table |-> t, stmt |-> TRUE]
        ELSE [err |-> ErrNil, table |-> t \cup {row}, stmt |-> TRUE]

\* PostgresRepository.GetByID: the row, or Nil with no error.
RepoGetByID(t, id) ==
    IF \E r \in t : r.id = id
    THEN Some(CHOOSE r \in t : r.id = id)
    ELSE Nil

\* RepoUpdate without the return for an empty list of updates: the statement
\* sets updated_at alone.
RepoUpdateAlwaysSends(t, id, req, ts) ==
    LET matched == {r \in t : r.id = id}
        new == {SetRow(r, req, ts) : r \in matched}
    IN  IF \E n \in new : ~(n.price > 0)
        THEN [err |-> ErrPq, table |-> t, stmt |-> TRUE]
        ELSE IF Cardinality(matched) = 0
        THEN [err |-> ErrNoRows, table |-> t, stmt |-> TRUE]
        ELSE [err |-> ErrNil, table |-> (t \ matched) \cup new, stmt |-> TRUE]

\* RepoUpdate without the test of rowsAffected.
RepoUpdateIgnoresRowsAffected(t, id, req, ts) ==
    IF Supplied(req) = {}
    THEN [err |-> ErrNil, table |-> t, stmt |-> FALSE]
    ELSE LET matched == {r \in t : r.id = id}
             new == {SetRow(r, req, ts) : r \in matched}
         IN  IF \E n \in new : ~(n.price > 0)
             THEN [err |-> ErrPq, table |-> t, stmt |-> TRUE]
             ELSE [err |-> ErrNil, table |-> (t \ matched) \cup new, stmt |-> TRUE]

\* PostgresRepository.Update: [err, table, stmt] where table is the table
\* after the call and stmt whether a statement was sent.
RepoUpdate(t, id, req, ts) ==
    IF Supplied(req) = {}
    THEN [err |-> ErrNil, table |-> t, stmt |-> FALSE]
    ELSE LET matched == {r \in t : r.id = id}
             new == {SetRow(r, req, ts) : r \in matched}
         IN  IF \E n \in new : ~(n.price > 0)
             THEN [err |-> ErrPq, table |-> t, stmt |-> TRUE]
             ELSE IF Cardinality(matched) = 0
             THEN [err |-> ErrNoRows, table |-> t, stmt |-> TRUE]
             ELSE [err |-> ErrNil, table |-> (t \ matched) \cup new, stmt |-> TRUE]

\* RepoDelete without the test of rowsAffected.
RepoDeleteIgnoresRowsAffected(t, id) ==
    [err |-> ErrNil, table |-> {r \in t : r.id # id}, stmt |-> TRUE]

\* PostgresRepository.Delete.
RepoDelete(t, id) ==
    LET matched == {r \in t : r.id = id}
    IN  IF Cardinality(matched) = 0
        THEN [err |-> ErrNoRows, table |-> t, stmt |-> TRUE]
        ELSE [err |-> ErrNil, table |-> t \ matched, stmt |-> TRUE]

----------------------------------------------------------------------------
(* The queries *)

\* a < b and a <= b as the database orders two VARCHAR values: byte by byte.
StrLess(a, b) ==
    \E i \in 1..(Len(a) + 1) :
        /\ \A j \in 1..(i - 1) : j <= Len(b) /\ a[j] = b[j]
        /\ IF i > Len(a) THEN Len(b) >= i ELSE i <= Len(b) /\ a[i] < b[i]

StrLE(a, b) == a = b \/ StrLess(a, b)

Lower(c) == IF c >= 65 /\ c <= 90 THEN c + 32 ELSE c

\* s ILIKE pat: % (37) matches any run of characters, _ (95) any one
\* character, any other character itself without regard to case.
RECURSIVE Like(_, _)
Like(s, pat) ==
    IF pat = <<>> THEN s = <<>>
    ELSE IF Head(pat) = 37
    THEN Like(s, Tail(pat)) \/ (s # <<>> /\ Like(Tail(s), pat))
    ELSE /\ s # <<>>
         /\ (Head(pat) = 95 \/ Lower(Head(pat)) = Lower(Head(s)))
         /\ Like(Tail(s), Tail(pat))

\* getStringPointer.
getStringPointer(s) == IF s = Empty THEN Nil ELSE Some(s)

\* A filter field the repository builds a condition for.
Given(p) == p # Nil /\ p[1] # Empty

\* user_id = $n with a text parameter: the database reads the text as a
\* uuid, and fails the statement when it is none.
UserParamFails(filter) ==
    Given(filter.user_id) /\ ParseUUID(filter.user_id[1]) = Nil

\* The rows the WHERE clause of GetAll selects.
GetAllRows(t, filter) ==
    {r \in t :
        /\ Given(filter.user_id) => ParseUUID(filter.user_id[1]) = Some(r.user_id)
        /\ Given(filter.service_name) =>
               Like(r.service_name, <<37>> \o filter.service_name[1] \o <<37>>)
        /\ Given(filter.start_date) => StrLE(filter.start_date[1], r.start_date)
        /\ Given(filter.end_date) =>
               (r.end_date = Nil \/ StrLE(r.end_date[1], filter.end_date[1]))}

\* Orderings with ORDER BY created_at ASC.
OrderingsAscending(rows) ==
    {f \in [1..Cardinality(rows) -> rows] :
        /\ \A i, j \in DOMAIN f : i # j => f[i] # f[j]
        /\ \A i, j \in DOMAIN f : i < j => f[i].created_at <= f[j].created_at}

\* ORDER BY created_at DESC: every order of the rows that has no row before
\* one created later.
Orderings(rows) ==
    {f \in [1..Cardinality(rows) -> rows] :
        /\ \A i, j \in DOMAIN f : i # j => f[i] # f[j]
        /\ \A i, j \in DOMAIN f : i < j => f[i].created_at >= f[j].created_at}

\* PostgresRepository.GetAll: the error, and the slices it may return.
RepoGetAll(t, filter) ==
    IF UserParamFails(filter)
    THEN [err |-> ErrPq, outs |-> {<<>>}]
    ELSE [err |-> ErrNil, outs |-> Orderings(GetAllRows(t, filter))]

RECURSIVE SumPrice(_)
SumPrice(rows) ==
    IF rows = {} THEN 0
    ELSE LET r == CHOOSE x \in rows : TRUE IN r.price + SumPrice(rows \ {r})

\* The rows the WHERE clause of GetTotalCost selects.
TotalCostRows(t, filter, startDate, endDate) ==
    {r \in t :
        /\ StrLE(r.start_date, endDate)
        /\ (r.end_date = Nil \/ StrLE(startDate, r.end_date[1]))
        /\ Given(filter.user_id) => ParseUUID(filter.user_id[1]) = Some(r.user_id)
        /\ Given(filter.service_name) => r.service_name = filter.service_name[1]}

\* PostgresRepository.GetTotalCost: COALESCE(SUM(price), 0), COUNT(*).
RepoGetTotalCost(t, filter, startDate, endDate) ==
    IF UserParamFails(filter)
    THEN [err |-> ErrPq, total |-> 0, count |-> 0]
    ELSE LET rows == TotalCostRows(t, filter, startDate, endDate)
         IN  [err |-> ErrNil, total |-> SumPrice(rows), count |-> Cardinality(rows)]

----------------------------------------------------------------------------
(* The handlers *)

StatusOK == 200
StatusCreated == 201
StatusBadRequest == 400
StatusNotFound == 404
StatusInternalServerError == 500

\* A response: the handler, its status, the id it names, whether the handler
\* sent a statement to the database, the query of a list or total-cost
\* request, and what the body lists.
Response(op, status, id, stmt, q, out) ==
    [op |-> op, status |-> status, id |-> id, stmt |-> stmt, q |-> q, out |-> out]

\* The id a path text parses to, uuid.Nil when it does not parse.
PathId(text) == IF ParseUUID(text) = Nil THEN NoId ELSE ParseUUID(text)[1]

\* CreateValid without the parse of end_date.
CreateValidSkipsEndDate(in) ==
    /\ ParseMonthYear(in.start_date)
    /\ ParseUUID(in.user_id) # Nil

\* The checks of CreateSubscription before it calls the repository.
CreateValid(in) ==
    /\ ParseMonthYear(in.start_date)
    /\ (in.end_date # Nil => ParseMonthYear(in.end_date[1]))
    /\ ParseUUID(in.user_id) # Nil

\* The models.Subscription CreateSubscription hands to the repository.
SubscriptionOf(in) ==
    [service_name |-> in.service_name, price |-> in.price,
     user_id |-> ParseUUID(in.user_id)[1], start_date |-> in.start_date,
     end_date |-> in.end_date]

\* The checks of UpdateSubscription before it calls the repository.
UpdateValid(in) ==
    /\ ParseUUID(in.id) # Nil
    /\ (in.end_date # Nil => ParseMonthYear(in.end_date[1]))

\* The checks of GetTotalCost before it calls the repository.
TotalCostValid(q) ==
    /\ ~(q.start_date = Empty \/ q.end_date = Empty)
    /\ ParseMonthYear(q.start_date)
    /\ ParseMonthYear(q.end_date)

\* StatusOfErr without the comparison with "sql: no rows in result set".
StatusOfErrAllInternal(err) ==
    IF err = ErrNil THEN StatusOK ELSE StatusInternalServerError

\* UpdateSubscription's and DeleteSubscription's status for a repository error.
StatusOfErr(err) ==
    IF err = ErrNil THEN StatusOK
    ELSE IF err = ErrNoRows THEN StatusNotFound
    ELSE StatusInternalServerError

InFlight(op) == {p \in BagToSet(pend) : p.op = op}
InFlightCount(op) == BagCardinality([p \in InFlight(op) |-> CopiesIn(p, pend)])

\* CreateSubscription when ShouldBindJSON returns an error.
CreateBadBody ==
    /\ resp' = Response("Create", StatusBadRequest, NoId, FALSE, Nil, <<>>)
    /\ UNCHANGED <<table, now, issued, deleted, pend>>

\* CreateSubscription returning 400 for a field of the body.
CreateReject(in) ==
    /\ ~CreateValid(in)
    /\ resp' = Response("Create", StatusBadRequest, NoId, FALSE, Nil, <<>>)
    /\ UNCHANGED <<table, now, issued, deleted, pend>>

\* PostgresRepository.Create up to its second time.Now().
CreateBegin ==
    /\ BagCardinality(pend) < MaxInFlight
    /\ Cardinality(issued) + InFlightCount("Create") < MaxId
    /\ \E t1 \in Times, t2 \in Times :
        /\ now <= t1 /\ t1 <= t2
        /\ now' = t2
        /\ pend' = pend (+) SetToBag({[op |-> "Create", at |-> <<t1, t2>>]})
    /\ UNCHANGED <<table, issued, deleted, resp>>

\* The INSERT of Create and the handler's response.
CreateExec(p, in, id) ==
    /\ p \in InFlight("Create")
    /\ CreateValid(in)
    /\ id \in NewUUID(issued)
    /\ LET res == RepoCreate(table, SubscriptionOf(in), id, p.at)
       IN  /\ table' = res.table
           /\ resp' = Response("Create",
                               IF res.err = ErrNil THEN StatusCreated
                               ELSE StatusInternalServerError,
                               IF res.err = ErrNil THEN id ELSE NoId,
                               res.stmt, Nil, <<>>)
    /\ issued' = issued \cup {id}
    /\ pend' = pend (-) SetToBag({p})
    /\ UNCHANGED <<now, deleted>>

\* UpdateSubscription when the path id parses and ShouldBindJSON returns an error.
UpdateBadBody(id) ==
    /\ ParseUUID(id) # Nil
    /\ resp' = Response("Update", StatusBadRequest, NoId, FALSE, Nil, <<>>)
    /\ UNCHANGED <<table, now, issued, deleted, pend>>

\* UpdateSubscription returning 400 for the path id or a field of the body.
UpdateReject(in) ==
    /\ ~UpdateValid(in)
    /\ resp' = Response("Update", StatusBadRequest, NoId, FALSE, Nil, <<>>)
    /\ UNCHANGED <<table, now, issued, deleted, pend>>

\* PostgresRepository.Update up to its time.Now().
UpdateBegin ==
    /\ BagCardinality(pend) < MaxInFlight
    /\ \E t \in Times :
        /\ now <= t
        /\ now' = t
        /\ pend' = pend (+) SetToBag({[op |-> "Update", at |-> <<t>>]})
    /\ UNCHANGED <<table, issued, deleted, resp>>

\* The rest of Update and the handler's response.
UpdateExec(p, in) ==
    /\ p \in InFlight("Update")
    /\ UpdateValid(in)
    /\ LET res == RepoUpdate(table, PathId(in.id), in, p.at[1])
       IN  /\ table' = res.table
           /\ resp' = Response("Update", StatusOfErr(res.err), PathId(in.id),
                               res.stmt, Nil, <<>>)
    /\ pend' = pend (-) SetToBag({p})
    /\ UNCHANGED <<now, issued, deleted>>

\* DeleteSubscription.
DeleteSubscription(id) ==
    IF ParseUUID(id) = Nil
    THEN /\ resp' = Response("Delete", StatusBadRequest, NoId, FALSE, Nil, <<>>)
         /\ UNCHANGED <<table, now, issued, deleted, pend>>
    ELSE LET res == RepoDelete(table, PathId(id))
         IN  /\ table' = res.table
             /\ deleted' = IF res.err = ErrNil THEN deleted \cup {PathId(id)} ELSE deleted
             /\ resp' = Response("Delete", StatusOfErr(res.err), PathId(id),
                                 res.stmt, Nil, <<>>)
             /\ UNCHANGED <<now, issued, pend>>

\* GetSubscription.
GetSubscription(id) ==
    /\ IF ParseUUID(id) = Nil
       THEN resp' = Response("Get", StatusBadRequest, NoId, FALSE, Nil, <<>>)
       ELSE LET sub == RepoGetByID(table, PathId(id))
            IN  resp' = Response("Get",
                                 IF sub = Nil THEN StatusNotFound ELSE StatusOK,
                                 PathId(id), TRUE, Nil, sub)
    /\ UNCHANGED <<table, now, issued, deleted, pend>>

\* DeleteSubscription when r.db.Exec returns an error: the database did not
\* carry out the statement.
DeleteStoreFailure(id) ==
    /\ ParseUUID(id) # Nil
    /\ resp' = Response("Delete", StatusOfErr(ErrPq), PathId(id), TRUE, Nil, <<>>)
    /\ UNCHANGED <<table, now, issued, deleted, pend>>

\* GetSubscription when QueryRow(...).Scan returns an error other than
\* sql.ErrNoRows.
GetStoreFailure(id) ==
    /\ ParseUUID(id) # Nil
    /\ resp' = Response("Get", StatusInternalServerError, PathId(id), TRUE, Nil, Nil)
    /\ UNCHANGED <<table, now, issued, deleted, pend>>

\* GetAllSubscriptions, q the four query parameters ("" when absent).
GetAllSubscriptions(q) ==
    /\ LET filter == [f \in DOMAIN q |-> getStringPointer(q[f])]
           res == RepoGetAll(table, filter)
       IN  \E out \in res.outs :
               resp' = Response("List",
                                IF res.err = ErrNil THEN StatusOK
                                ELSE StatusInternalServerError,
                                NoId, TRUE, Some(q), out)
    /\ UNCHANGED <<table, now, issued, deleted, pend>>

\* GetTotalCost, q the four query parameters ("" when absent).
GetTotalCost(q) ==
    /\ IF ~TotalCostValid(q)
       THEN resp' = Response("TotalCost", StatusBadRequest, NoId, FALSE, Some(q), <<>>)
       ELSE LET filter == [user_id |-> getStringPointer(q.user_id),
                           service_name |-> getStringPointer(q.service_name)]
                res == RepoGetTotalCost(table, filter, q.start_date, q.end_date)
            IN  resp' = IF res.err = ErrNil
                        THEN Response("TotalCost", StatusOK, NoId, TRUE, Some(q),
                                      <<res.total, res.count>>)
                        ELSE Response("TotalCost", StatusInternalServerError, NoId,
                                      TRUE, Some(q), <<>>)
    /\ UNCHANGED <<table, now, issued, deleted, pend>>

----------------------------------------------------------------------------
(* The write specification: Create, Update and Delete from an empty table, *)
(* with every subset of the fields of an update and every price.           *)

Init ==
    /\ table = {}
    /\ now = 0
    /\ issued = {}
    /\ deleted = {}
    /\ pend = EmptyBag
    /\ resp = Response("none", StatusOK, NoId, FALSE, Nil, <<>>)

Next ==
    \/ CreateBegin
    \/ \E p \in InFlight("Create"), in \in WellFormedCreates, id \in Ids :
           CreateExec(p, in, id)
    \/ UpdateBegin
    \/ \E p \in InFlight("Update"), in \in WellFormedUpdates : UpdateExec(p, in)
    \/ \E id \in PathTexts : DeleteSubscription(id)

Spec == Init /\ [][Next]_vars

----------------------------------------------------------------------------
(* The request specification: every handler that validates its request,    *)
(* with well-formed and malformed requests.                                *)

RequestCreates ==
    {in \in WellFormedCreates : in.price = 1 /\ in.end_date = Nil}
        \cup MalformedCreates

RequestUpdates ==
    {in \in WellFormedUpdates : in.price = Nil /\ in.end_date = Nil}
        \cup MalformedUpdates

\* Total-cost requests: one with both bounds, and ones with a bound missing
\* or malformed.
RequestCostQueries ==
    LET ok == [start_date |-> Jan2023, end_date |-> Dec2023, user_id |-> Empty,
               service_name |-> Empty]
    IN  { ok,
          [ok EXCEPT !.start_date = Empty],
          [ok EXCEPT !.end_date = Empty],
          [ok EXCEPT !.start_date = WrongOrder],
          [ok EXCEPT !.end_date = Month13] }

NextRequest ==
    \/ CreateBadBody
    \/ \E in \in RequestCreates : CreateReject(in)
    \/ CreateBegin
    \/ \E p \in InFlight("Create"), in \in RequestCreates, id \in Ids :
           CreateExec(p, in, id)
    \/ \E id \in PathTexts : UpdateBadBody(id)
    \/ \E in \in RequestUpdates : UpdateReject(in)
    \/ UpdateBegin
    \/ \E p \in InFlight("Update"), in \in RequestUpdates : UpdateExec(p, in)
    \/ \E id \in PathTexts : DeleteSubscription(id)
    \/ \E id \in PathTexts : GetSubscription(id)
    \/ \E q \in RequestCostQueries : GetTotalCost(q)

SpecRequest == Init /\ [][NextRequest]_vars

----------------------------------------------------------------------------
(* The query specifications: a table the service can hold, and the two     *)
(* queries on it.                                                          *)

NameAb == <<65, 98>>                           \* "Ab"
Underscore == <<95>>                           \* "_"
UpperB == <<66>>                               \* "B"
Feb2024 == MonthYear(2, 2024)                  \* "02-2024"

\* The tables of at most MaxRows rows whose fields are drawn from shapes,
\* with ids 1, 2, ...
TablesOf(shapes) ==
    UNION { { { [id |-> i, service_name |-> f[i].service_name, price |-> f[i].price,
                 user_id |-> f[i].user_id, start_date |-> f[i].start_date,
                 end_date |-> f[i].end_date, created_at |-> f[i].created_at,
                 updated_at |-> f[i].updated_at] : i \in 1..n }
              : f \in [1..n -> shapes] }
            : n \in 0..MaxRows }

InitOn(tables) ==
    /\ table \in tables
    /\ now = MaxTime
    /\ issued = IdsOf(table)
    /\ deleted = {}
    /\ pend = EmptyBag
    /\ resp = Response("none", StatusOK, NoId, FALSE, Nil, <<>>)

ListRowShapes ==
    [service_name : {NameA, NameAb}, price : {1}, user_id : {1, 2},
     start_date : {Jan2023}, end_date : {Nil, Some(Dec2023)},
     created_at : Times, updated_at : {MaxTime}]

ListQueries ==
    [user_id : {Empty, UuidText(1), UuidText(3), BadUuidText},
     service_name : {Empty, NameA, UpperB, Underscore},
     start_date : {Empty, Jan2023},
     end_date : {Empty, Dec2023}]

InitList == InitOn(TablesOf(ListRowShapes))

NextList == \E q \in ListQueries : GetAllSubscriptions(q)

SpecList == InitList /\ [][NextList]_vars

\* Rows whose end_date, when they have one, is not before their start_date.
CostRowShapes ==
    { r \in [service_name : {NameA, NameB}, price : 1..MaxPrice, user_id : {1},
             start_date : {Jan2023, Feb2024}, end_date : {Nil, Some(Dec2023)},
             created_at : {0}, updated_at : {0}] :
        r.start_date = Feb2024 => r.end_date = Nil }

\* Windows whose first month is not after their last.
CostWindows ==
    { <<Jan2023, Jan2023>>, <<Jan2023, Dec2023>>, <<Jan2023, Feb2024>>,
      <<Dec2023, Feb2024>>, <<Feb2024, Feb2024>> }

CostQueries ==
    { [start_date |-> w[1], end_date |-> w[2], user_id |-> u, service_name |-> n] :
        w \in CostWindows, u \in {Empty, UuidText(1), UuidText(2)},
        n \in {Empty, NameA, NameB} }

InitCost == InitOn(TablesOf(CostRowShapes))

NextCost == \E q \in CostQueries : GetTotalCost(q)

SpecCost == InitCost /\ [][NextCost]_vars

----------------------------------------------------------------------------
(* The outcome specification: Get, Update and Delete of ids that have a    *)
(* row and of ids that have none, with the database carrying out the       *)
(* statement, refusing it, or failing.                                     *)

OutcomeCreates ==
    {in \in WellFormedCreates : in.price = 1 /\ in.end_date = Nil}

\* Updates with no field, with a price above 0 and with a price not above 0.
OutcomeUpdates ==
    {in \in WellFormedUpdates : in.service_name = Nil /\ in.end_date = Nil}

NextOutcome ==
    \/ CreateBegin
    \/ \E p \in InFlight("Create"), in \in OutcomeCreates, id \in Ids :
           CreateExec(p, in, id)
    \/ UpdateBegin
    \/ \E p \in InFlight("Update"), in \in OutcomeUpdates : UpdateExec(p, in)
    \/ \E id \in PathTexts : DeleteSubscription(id)
    \/ \E id \in PathTexts : DeleteStoreFailure(id)
    \/ \E id \in PathTexts : GetSubscription(id)
    \/ \E id \in PathTexts : GetStoreFailure(id)

SpecOutcome == Init /\ [][NextOutcome]_vars

----------------------------------------------------------------------------
(* Properties of the write specification *)

RowOf(t, id) == CHOOSE r \in t : r.id = id

\* The step is UpdateExec(p, in); the first three conjuncts follow from it.
UpdateStep(p, in) ==
    /\ resp'.op = "Update"
    /\ in.id = UuidText(resp'.id)
    /\ resp'.stmt = (Supplied(in) # {})
    /\ UpdateExec(p, in)

\* C1: an Update of an existing row leaves every other row as it was, keeps
\* the row's id, user_id, start_date and created_at, keeps each of
\* service_name, price and end_date the request does not supply, and, when it
\* succeeds, gives each supplied field the supplied value.
C1_UpdateFrame ==
    [][\A in \in WellFormedUpdates, p \in InFlight("Update") :
         (UpdateStep(p, in) /\ PathId(in.id) \in IdsOf(table)) =>
            LET id == PathId(in.id)
                old == RowOf(table, id)
                new == RowOf(table', id)
            IN  /\ {r \in table' : r.id # id} = {r \in table : r.id # id}
                /\ Cardinality({r \in table' : r.id = id}) = 1
                /\ new.user_id = old.user_id
                /\ new.start_date = old.start_date
                /\ new.created_at = old.created_at
                /\ \A f \in {"service_name", "price", "end_date"} \ Supplied(in) :
                       new[f] = old[f]
                /\ resp'.status = StatusOK =>
                       /\ in.service_name # Nil => new.service_name = in.service_name[1]
                       /\ in.price # Nil => new.price = in.price[1]
                       /\ in.end_date # Nil => new.end_date = in.end_date
                /\ resp'.status # StatusOK => new = old]_vars

\* An Update that sent its statement succeeded on a row that now carries a
\* supplied name and a supplied price beside an end_date nobody supplied.
C1_Witness ==
    /\ resp.op = "Update" /\ resp.status = StatusOK /\ resp.stmt
    /\ \E r \in table :
           /\ r.id = resp.id
           /\ r.service_name = NameB /\ r.price = MaxPrice /\ r.end_date = Nil

\* C2 as the specification states it: a successful Update of an existing row
\* leaves its updated_at strictly greater than before, whichever fields the
\* request supplies, none included.
C2_UpdatedAtStrictlyIncreases ==
    [][\A in \in WellFormedUpdates, p \in InFlight("Update") :
         (UpdateStep(p, in) /\ PathId(in.id) \in IdsOf(table)
             /\ resp'.status = StatusOK) =>
            RowOf(table', PathId(in.id)).updated_at
                > RowOf(table, PathId(in.id)).updated_at]_vars

\* C2: a successful Update of an existing row that supplies at least one
\* field sets the row's updated_at to the time the Update read before its
\* statement; one that supplies no field leaves updated_at as it was.
C2_UpdatedAtIsTheReading ==
    [][\A in \in WellFormedUpdates, p \in InFlight("Update") :
         (UpdateStep(p, in) /\ PathId(in.id) \in IdsOf(table)
             /\ resp'.status = StatusOK) =>
            LET old == RowOf(table, PathId(in.id))
                new == RowOf(table', PathId(in.id))
            IN  IF Supplied(in) # {}
                THEN new.updated_at = p.at[1]
                ELSE new.updated_at = old.updated_at]_vars

\* An Update that sent its statement succeeded on a row created at time 0
\* whose updated_at is now the later reading.
C2_Witness ==
    /\ resp.op = "Update" /\ resp.status = StatusOK /\ resp.stmt
    /\ \E r \in table :
           r.id = resp.id /\ r.created_at = 0 /\ r.updated_at = MaxTime

\* C3 as the specification states it: an Update on an id not present in the
\* table answers 404 whichever fields the request supplies, and leaves the
\* table unchanged.
C3_MissingIdAlwaysNotFound ==
    [][\A in \in WellFormedUpdates, p \in InFlight("Update") :
         (UpdateStep(p, in) /\ PathId(in.id) \notin IdsOf(table)) =>
            resp'.status = StatusNotFound /\ table' = table]_vars

\* C3: an Update on an id not present in the table leaves the table
\* unchanged; it answers 404 when the request supplies at least one field,
\* and 200 without sending a statement when it supplies none.
C3_MissingIdNotFoundUnlessEmpty ==
    [][\A in \in WellFormedUpdates, p \in InFlight("Update") :
         (UpdateStep(p, in) /\ PathId(in.id) \notin IdsOf(table)) =>
            /\ table' = table
            /\ IF Supplied(in) # {}
               THEN resp'.status = StatusNotFound /\ resp'.stmt
               ELSE resp'.status = StatusOK /\ ~resp'.stmt]_vars

\* An Update was answered 404 for an id that was deleted before.
C3_Witness ==
    /\ resp.op = "Update" /\ resp.status = StatusNotFound
    /\ resp.id \in deleted /\ resp.id \notin IdsOf(table)

\* C4: a Delete of an id that was deleted before, or that no Create was ever
\* given, answers 404 and leaves the table unchanged; a Delete that answers
\* 200 removes the row of that id and no other row; and no step brings a
\* deleted id back into the table.
C4_DeleteOnce ==
    [][/\ \A text \in PathTexts :
            (DeleteSubscription(text) /\ ParseUUID(text) # Nil) =>
               LET id == PathId(text)
               IN  /\ resp'.status \in {StatusOK, StatusNotFound}
                   /\ (id \in deleted \/ id \notin issued) =>
                          resp'.status = StatusNotFound /\ table' = table
                   /\ resp'.status = StatusNotFound => table' = table
                   /\ resp'.status = StatusOK =>
                          /\ id \in IdsOf(table)
                          /\ table' = {r \in table : r.id # id}
                          /\ id \in deleted'
       /\ \A id \in deleted : id \in deleted' /\ id \notin IdsOf(table')]_vars

\* A Delete was answered 404 for an id an earlier Delete removed, while
\* another row is in the table.
C4_Witness ==
    /\ resp.op = "Delete" /\ resp.status = StatusNotFound
    /\ resp.id \in deleted /\ table # {}

\* C5 as the specification states it: a Create that succeeds adds one row
\* whose id no row had before, and whose created_at equals its updated_at.
C5_CreateFreshIdEqualStamps ==
    [][\A p \in InFlight("Create"), in \in WellFormedCreates, id \in Ids :
         (CreateExec(p, in, id) /\ resp'.status = StatusCreated) =>
            /\ id \notin IdsOf(table)
            /\ resp'.id = id
            /\ Cardinality({r \in table' : r.id = id}) = 1
            /\ table' \ {RowOf(table', id)} = table
            /\ RowOf(table', id).created_at = RowOf(table', id).updated_at]_vars

\* C10: after every step every row of the table has a price above 0, and a
\* Create or an Update that carries a price of 0 or less is not answered 200
\* or 201 and leaves the table unchanged.
C10_PricePositive ==
    [][/\ \A r \in table' : r.price > 0
       /\ \A p \in InFlight("Create"), in \in WellFormedCreates, id \in Ids :
            (CreateExec(p, in, id) /\ in.price <= 0) =>
               /\ resp'.status \notin {StatusOK, StatusCreated}
               /\ table' = table
       /\ \A in \in WellFormedUpdates, p \in InFlight("Update") :
            (UpdateStep(p, in) /\ in.price # Nil /\ in.price[1] <= 0) =>
               /\ resp'.status \notin {StatusOK, StatusCreated}
               /\ table' = table]_vars

\* A Create carrying a price of 0 or less was answered 500 after its INSERT,
\* and the table holds a row.
C10_Witness ==
    /\ resp.op = "Create" /\ resp.status = StatusInternalServerError /\ resp.stmt
    /\ table # {}

----------------------------------------------------------------------------
(* Properties of the request specification *)

\* The texts of a month and a year, MM-YYYY, and the texts of a uuid.
MonthYearTexts == {MonthYear(m, y) : m \in 1..12, y \in 2022..2024}
UuidTexts == {UuidText(n) : n \in 1..9}

\* The response of the step answers 400, the handler sent no statement, and
\* the table is as it was.
Refused ==
    /\ resp'.status = StatusBadRequest
    /\ ~resp'.stmt
    /\ table' = table

\* C9: a Create whose start_date or present end_date is no MM-YYYY text or
\* whose user_id is no uuid, a Get, an Update or a Delete whose path id is no
\* uuid, an Update whose present end_date is no MM-YYYY text, and a
\* total-cost request with a bound missing or no MM-YYYY text are each
\* answered 400 with no statement sent and the table unchanged.
C9_InvalidNeverReachesStore ==
    [][/\ \A in \in RequestCreates :
            ( /\ \/ in.start_date \notin MonthYearTexts
                 \/ in.end_date # Nil /\ in.end_date[1] \notin MonthYearTexts
                 \/ in.user_id \notin UuidTexts
              /\ \/ CreateReject(in)
                 \/ \E p \in InFlight("Create"), id \in Ids : CreateExec(p, in, id) )
            => Refused
       /\ \A in \in RequestUpdates :
            ( /\ \/ in.id \notin UuidTexts
                 \/ in.end_date # Nil /\ in.end_date[1] \notin MonthYearTexts
              /\ \/ UpdateReject(in)
                 \/ \E p \in InFlight("Update") : UpdateExec(p, in) )
            => Refused
       /\ \A id \in PathTexts :
            (id \notin UuidTexts /\ (GetSubscription(id) \/ DeleteSubscription(id)))
            => Refused
       /\ \A q \in RequestCostQueries :
            ( /\ q.start_date \notin MonthYearTexts \/ q.end_date \notin MonthYearTexts
              /\ GetTotalCost(q) )
            => Refused]_vars

\* A Create was answered 400 without a statement while the table holds a row.
C9_Witness ==
    /\ resp.op = "Create" /\ resp.status = StatusBadRequest /\ ~resp.stmt
    /\ table # {}

----------------------------------------------------------------------------
(* Properties of the query specifications *)

NoFilter ==
    [user_id |-> Empty, service_name |-> Empty, start_date |-> Empty,
     end_date |-> Empty]

ListedAll(r) == r.op = "List" /\ r.q = Some(NoFilter)

Listed(out) == {out[i] : i \in DOMAIN out}

\* C7: a List with no filter field answers 200 with every row of the table,
\* each once, no row before one created later; and two such Lists with no
\* write between them list the same set of rows.
C7_ListAll ==
    [][/\ ListedAll(resp') =>
            /\ resp'.status = StatusOK
            /\ Listed(resp'.out) = table'
            /\ Len(resp'.out) = Cardinality(table')
            /\ \A i, j \in DOMAIN resp'.out :
                   i < j => resp'.out[i].created_at >= resp'.out[j].created_at
       /\ (ListedAll(resp) /\ ListedAll(resp') /\ table' = table) =>
            Listed(resp'.out) = Listed(resp.out)]_vars

\* A List with no filter listed two rows, the one created later first.
C7_Witness ==
    /\ ListedAll(resp) /\ resp.status = StatusOK
    /\ Len(resp.out) = MaxRows
    /\ resp.out[1].created_at > resp.out[2].created_at

\* v occurs in s, letters compared without regard to case.
Contains(s, v) ==
    \E k \in 0..(Len(s) - Len(v)) :
        \A j \in 1..Len(v) : Lower(s[k + j]) = Lower(v[j])

\* The month a MM-YYYY text names, counted from year 0.
MonthIndex(s) ==
    (((s[4] - 48) * 1000 + (s[5] - 48) * 100 + (s[6] - 48) * 10 + (s[7] - 48)) * 12)
        + (s[1] - 48) * 10 + (s[2] - 48)

\* The row satisfies every field the List query q supplies.
Satisfies(r, q) ==
    /\ q.user_id # Empty => UuidText(r.user_id) = q.user_id
    /\ q.service_name # Empty => Contains(r.service_name, q.service_name)
    /\ q.start_date # Empty => MonthIndex(r.start_date) >= MonthIndex(q.start_date)
    /\ q.end_date # Empty =>
           (r.end_date = Nil \/ MonthIndex(r.end_date[1]) <= MonthIndex(q.end_date))

\* C8 as the specification states it, for a user_id filter that is absent
\* or the text of a uuid: a List answers 200 with exactly the rows that
\* satisfy every supplied field of the filter (user_id equal, service_name
\* containing the value without regard to case, start_date not before the
\* bound, end_date absent or not after the bound), an absent field
\* restricting nothing; no matching row gives the empty list.
C8_ListFilter ==
    (resp.op = "List" /\ resp.q[1].user_id \in {Empty} \cup UuidTexts) =>
        /\ resp.status = StatusOK
        /\ Listed(resp.out) = {r \in table : Satisfies(r, resp.q[1])}
        /\ Len(resp.out) = Cardinality(Listed(resp.out))

\* The row is active in some month of the window of the total-cost query q
\* and carries the user_id and service_name q supplies.
Qualifies(r, q) ==
    /\ MonthIndex(r.start_date) <= MonthIndex(q.end_date)
    /\ (r.end_date = Nil \/ MonthIndex(r.end_date[1]) >= MonthIndex(q.start_date))
    /\ q.user_id # Empty => UuidText(r.user_id) = q.user_id
    /\ q.service_name # Empty => r.service_name = q.service_name

\* C6 as the specification states it: a total-cost request with two MM-YYYY
\* bounds answers 200 with the sum of the prices and the number of the rows
\* whose months, from start_date to end_date or without end, meet the window
\* from the first bound to the last in the order of the calendar, and that
\* carry the user_id and service_name of the filter; (0, 0) when there is none.
C6_TotalCostChronological ==
    resp.op = "TotalCost" =>
        LET rows == {r \in table : Qualifies(r, resp.q[1])}
        IN  /\ resp.status = StatusOK
            /\ resp.out = <<SumPrice(rows), Cardinality(rows)>>

----------------------------------------------------------------------------
(* Properties of the outcome specification *)

\* C11 as the specification states it: a Get, an Update or a Delete of an id
\* that has no row in the table is answered 404.
C11_AbsenceAlwaysNotFound ==
    [][/\ \A text \in PathTexts :
            ( /\ ParseUUID(text) # Nil
              /\ PathId(text) \notin IdsOf(table)
              /\ GetSubscription(text) \/ DeleteSubscription(text) )
            => resp'.status = StatusNotFound
       /\ \A in \in OutcomeUpdates, p \in InFlight("Update") :
            (UpdateStep(p, in) /\ PathId(in.id) \notin IdsOf(table))
            => resp'.status = StatusNotFound]_vars

\* C11: a Get or a Delete the database carries out is answered 404 exactly
\* when the id has no row, and never 500; GetByID then hands back no row and
\* no error.  An Update is answered 404 exactly when the id has no row and
\* the request supplies a field, 500 exactly when the id has a row and the
\* supplied price is refused by the table, and 200 when the id has no row
\* and the request supplies no field.  A Get or a Delete whose statement
\* fails in the database is answered 500, and the table is as it was.
C11_NotFoundIsNotStoreError ==
    [][/\ \A text \in PathTexts :
            LET absent == PathId(text) \notin IdsOf(table)
            IN  /\ (ParseUUID(text) # Nil /\ GetSubscription(text)) =>
                      /\ resp'.status = StatusNotFound <=> absent
                      /\ resp'.status # StatusInternalServerError
                      /\ absent => resp'.out = Nil
                /\ (ParseUUID(text) # Nil /\ DeleteSubscription(text)) =>
                      /\ resp'.status = StatusNotFound <=> absent
                      /\ resp'.status # StatusInternalServerError
                /\ (GetStoreFailure(text) \/ DeleteStoreFailure(text)) =>
                      /\ resp'.status = StatusInternalServerError
                      /\ table' = table
       /\ \A in \in OutcomeUpdates, p \in InFlight("Update") :
            UpdateStep(p, in) =>
               LET absent == PathId(in.id) \notin IdsOf(table)
                   refused == in.price # Nil /\ in.price[1] <= 0
               IN  /\ resp'.status = StatusNotFound <=> (absent /\ Supplied(in) # {})
                   /\ resp'.status = StatusInternalServerError <=> (~absent /\ refused)
                   /\ (absent /\ Supplied(in) = {}) => resp'.status = StatusOK]_vars

\* A Get was answered 404 for an id whose row a Delete removed, while another
\* row is in the table.
C11_Witness ==
    /\ resp.op = "Get" /\ resp.status = StatusNotFound /\ resp.out = Nil
    /\ resp.id \in deleted /\ table # {}

\* C12: an Update that supplies none of service_name, price and end_date is
\* answered 200 without a statement sent, and every row of the table, the
\* updated_at of the row of that id included, is as it was; so it is whether
\* the id has a row or not.
C12_EmptyUpdateIsNoOp ==
    [][\A in \in OutcomeUpdates, p \in InFlight("Update") :
         (Supplied(in) = {} /\ UpdateExec(p, in)) =>
            /\ resp'.status = StatusOK
            /\ ~resp'.stmt
            /\ table' = table]_vars

\* An Update with no field was answered 200 for an id whose row still has
\* the updated_at of time 0, the clock having moved on since.
C12_Witness ==
    /\ resp.op = "Update" /\ resp.status = StatusOK /\ ~resp.stmt
    /\ \E r \in table : r.id = resp.id /\ r.updated_at = 0
    /\ now = MaxTime

====
